---- MODULE Spec2Model ----
(***************************************************************************)
(* Cart -> order -> payment protocol of the cinema API.                    *)
(*                                                                         *)
(* The committed database is the state: carts, cart_items, orders,         *)
(* order_items, payments, payment_items, plus the checkout sessions held   *)
(* by the payment gateway.                                                 *)
(*                                                                         *)
(* Spec serves every request as one atomic action, one after the other.    *)
(* PurchaseSpec is Spec without the admin surface; ShopSpec is the cart    *)
(* store and the order engine alone; PaySpec is the checkout, the gateway  *)
(* and the webhook handler over orders that already exist.                 *)
(* CatalogSpec adds the catalog's price edits and the deletion of orders   *)
(* to the order engine; SnapshotSpec serves every request around an order  *)
(* that exists; WebhookSpec adds the requests the gateway did not sign.    *)
(* ConcOrderSpec, ConcPaySpec and ConcCartSpec run create_order_from_cart, *)
(* the checkout.session.completed handler and add_item_to_cart as          *)
(* interleaved steps, each request in a transaction of its own.            *)
(* RoleSpec adds the listing of all orders to the order engine;            *)
(* CheckoutSpec lets every customer ask for a checkout session;            *)
(* RedeliverySpec is ConcPaySpec with deliveries that keep coming;         *)
(* AccountSpec is the accounts router: registration, activation, login     *)
(* and password reset over the users table and the token tables.           *)
(***************************************************************************)
EXTENDS Integers, FiniteSets, Sequences, TLC

\* ------------------------------------------------------------- bounds
MaxOrders == 2
MaxSessions == 2
\* cap on the payments.id sequence, which rolled-back INSERTs advance too
MaxPayments == 2
\* tokens issued (activation, password reset, refresh) before the model stops
MaxTokens == 3

\* user 1 shops; user 2 is another customer, who only tries requests on
\* orders; user 3 is an admin
Users == {1, 2, 3}
Shoppers == {1}
Customers == {1, 2}
Movies == {1, 2}
\* the ids a request may name: the last one references no row of the movies table
MovieIds == {1, 2, 3}
\* non-admin users and admins (UserGroupEnum.ADMIN)
Admins == {3}
\* prices, in cents (Numeric(10, 2)): what the catalog starts with, and the
\* values a PATCH /movies/{id} may set
Prices == {999, 1499}
InitialCatalog == [m \in Movies |-> IF m = 1 THEN 999 ELSE 1499]

PENDING == "pending"
PAID == "paid"
CANCELED == "canceled"
OrderStatusEnum == {PENDING, PAID, CANCELED}

Procs == {1, 2}

VARIABLES
    moviePrice,     \* the price column of the movies table, by movie id
    carts,          \* rows of carts: [id, user_id]
    cartItems,      \* rows of cart_items: [cart_id, movie_id]
    orders,         \* rows of orders: [id, user_id, status, total_amount]
    orderItems,     \* rows of order_items: [order_id, movie_id, price_at_order]
    payments,       \* rows of payments: [id, session_id, order_id, user_id, amount]
    paymentItems,   \* rows of payment_items: [payment_id, order_id, movie_id, price_at_payment]
    orderSeq,       \* last value handed out by the orders.id sequence
    paymentSeq,     \* last value handed out by the payments.id sequence
    sessions,       \* gateway side: checkout sessions [id, order_id, user_id, state,
                    \* amount_total]
    last,           \* the request served last and its response
    co,             \* ConcSpec: the create_order_from_cart requests in flight
    wh,             \* ConcSpec: the checkout.session.completed deliveries in flight
    ad,             \* ConcSpec: the add_item_to_cart requests in flight
    userRows,       \* rows of users: [email, hashed_password, is_active]
    activationTokens,       \* rows of activation_tokens: [user, token, expired]
    passwordResetTokens,    \* rows of password_reset_tokens: [user, token, expired]
    refreshTokens,  \* rows of refresh_tokens: [user, token]
    tokenSeq        \* number of tokens issued so far

db == <<moviePrice, carts, cartItems, orders, orderItems, payments, paymentItems,
        orderSeq, paymentSeq>>
procs == <<co, wh, ad>>
auth == <<userRows, activationTokens, passwordResetTokens, refreshTokens, tokenSeq>>
vars == <<moviePrice, carts, cartItems, orders, orderItems, payments, paymentItems, orderSeq,
          paymentSeq, sessions, last, co, wh, ad, userRows, activationTokens,
          passwordResetTokens, refreshTokens, tokenSeq>>

\* ------------------------------------------------------------- helpers
\* movie.price, as the request reads it
Price(m) == moviePrice[m]

RECURSIVE SumPrices(_)
SumPrices(S) ==
    IF S = {} THEN 0
    ELSE LET m == CHOOSE x \in S : TRUE IN Price(m) + SumPrices(S \ {m})

\* Result.scalar_one_or_none(): None, the row, or MultipleResultsFound
ScalarOneOrNone(rows) ==
    IF rows = {} THEN "none"
    ELSE IF Cardinality(rows) = 1 THEN "one"
    ELSE "multiple"

Response(op, user, arg, result) ==
    [op |-> op, user |-> user, arg |-> arg, result |-> result]

\* select(OrderItem).join(Order).where(user_id, movie_id, status)
OrderItemRows(ords, items, u, m, st) ==
    {oi \in items : /\ oi.movie_id = m
                    /\ \E o \in ords : /\ o.id = oi.order_id
                                       /\ o.user_id = u
                                       /\ o.status = st}

\* is_movie_purchased: "no", "yes", or "error" (MultipleResultsFound)
IsMoviePurchasedIn(ords, items, u, m) ==
    LET r == ScalarOneOrNone(OrderItemRows(ords, items, u, m, PAID))
    IN  IF r = "none" THEN "no" ELSE IF r = "one" THEN "yes" ELSE "error"

is_movie_purchased(u, m) == IsMoviePurchasedIn(orders, orderItems, u, m)

CartOf(u) == {c \in carts : c.user_id = u}
CartIdOf(u) == (CHOOSE c \in CartOf(u) : TRUE).id
CartMovies(u) ==
    {ci.movie_id : ci \in {x \in cartItems : \E c \in CartOf(u) : x.cart_id = c.id}}

\* get_or_create_cart: the carts table afterwards (the creation is committed at once)
CartsAfterGetOrCreate(u) ==
    IF CartOf(u) # {} THEN carts
    ELSE carts \cup {[id |-> Cardinality(carts) + 1, user_id |-> u]}

get_order_of_any_user(oid, u) == {o \in orders : o.id = oid}
get_order(oid, u) == {o \in orders : o.id = oid /\ o.user_id = u}

SetStatusAndReprice(ords, oid, st) ==
    {IF o.id = oid
     THEN [o EXCEPT !.status = st,
                    !.total_amount =
                        SumPrices({oi.movie_id : oi \in {x \in orderItems : x.order_id = oid}})]
     ELSE o : o \in ords}
SetStatus(ords, oid, st) ==
    {IF o.id = oid THEN [o EXCEPT !.status = st] ELSE o : o \in ords}

OrderById(oid) == CHOOSE o \in orders : o.id = oid
OrderIds == {o.id : o \in orders}

\* ------------------------------------------------------------- cart store
CartItemRows(rows, cid, m) == {ci \in rows : ci.cart_id = cid /\ ci.movie_id = m}

\* select(CartItem).where(cart_id, movie_id), scalar_one_or_none()
existing_item(cid, m) == ScalarOneOrNone(CartItemRows(cartItems, cid, m))

\* uq_cart_movie: the INSERT fails when a committed row holds the pair
CartItemUniqueViolation(cid, m) == CartItemRows(cartItems, cid, m) # {}

\* the new row; n tells rows of one (cart_id, movie_id) pair apart, as the id
\* column does
NewCartItem(rows, cid, m) ==
    [cart_id |-> cid, movie_id |-> m, n |-> Cardinality(CartItemRows(rows, cid, m)) + 1]

add_item_to_cart(u, m) ==
    IF m \notin Movies THEN
        /\ last' = Response("add_item", u, m, "not_found")
        /\ UNCHANGED <<db, sessions, procs, auth>>
    ELSE IF is_movie_purchased(u, m) = "error" THEN
        /\ last' = Response("add_item", u, m, "server_error")
        /\ UNCHANGED <<db, sessions, procs, auth>>
    ELSE IF is_movie_purchased(u, m) = "yes" THEN
        /\ last' = Response("add_item", u, m, "repeat_purchase")
        /\ UNCHANGED <<db, sessions, procs, auth>>
    ELSE
        /\ carts' = CartsAfterGetOrCreate(u)
        /\ LET cid == (CHOOSE c \in carts' : c.user_id = u).id IN
           IF existing_item(cid, m) = "one" THEN
               /\ last' = Response("add_item", u, m, "already_in_cart")
               /\ UNCHANGED cartItems
           ELSE IF existing_item(cid, m) = "multiple" \/ CartItemUniqueViolation(cid, m) THEN
               /\ last' = Response("add_item", u, m, "server_error")
               /\ UNCHANGED cartItems
           ELSE
               /\ cartItems' = cartItems \cup {NewCartItem(cartItems, cid, m)}
               /\ last' = Response("add_item", u, m, "ok")
        /\ UNCHANGED <<moviePrice, orders, orderItems, payments, paymentItems, orderSeq,
                       paymentSeq, sessions, procs, auth>>

remove_item_from_cart(u, m) ==
    /\ carts' = CartsAfterGetOrCreate(u)
    /\ cartItems' = {ci \in cartItems :
                        ~(ci.movie_id = m /\ \E c \in CartOf(u) : ci.cart_id = c.id)}
    /\ last' = Response("remove_item", u, m,
                        IF m \in CartMovies(u) THEN "ok" ELSE "not_found")
    /\ UNCHANGED <<moviePrice, orders, orderItems, payments, paymentItems, orderSeq,
                   paymentSeq, sessions, procs, auth>>

\* ------------------------------------------------------------- order engine
\* the outcome of one pass of the loop over cart.items, for the movie m
ClassifyItem(ords, items, u, m) ==
    LET p == IsMoviePurchasedIn(ords, items, u, m)
    IN  IF p = "error" THEN "raise"
        ELSE IF p = "yes" THEN "purchased"
        ELSE LET q == ScalarOneOrNone(OrderItemRows(ords, items, u, m, PENDING))
             IN  IF q = "multiple" THEN "raise"
                 ELSE IF q = "one" THEN "pending"
                 ELSE "eligible"

PurchasedIn(ords, items, u, ms) ==
    {m \in ms : ClassifyItem(ords, items, u, m) = "purchased"}
PendingIn(ords, items, u, ms) ==
    {m \in ms : ClassifyItem(ords, items, u, m) = "pending"}
ItemsToOrder(ords, items, u, ms) ==
    {m \in ms : ClassifyItem(ords, items, u, m) = "eligible"}
\* the loop ends in an unhandled exception: MultipleResultsFound from a
\* scalar_one_or_none(), or AttributeError from movie.title (Movie has a
\* name column and no title) as soon as one item is already purchased
PartitionRaises(ords, items, u, ms) ==
    \E m \in ms : ClassifyItem(ords, items, u, m) \in {"raise", "purchased"}

NewOrder(id, u, ms) ==
    [id |-> id, user_id |-> u, status |-> PENDING, total_amount |-> SumPrices(ms)]
NewOrderItemsAtListPrice(id, ms) ==
    {[order_id |-> id, movie_id |-> m, price_at_order |-> InitialCatalog[m]] : m \in ms}
NewOrderItems(id, ms) ==
    {[order_id |-> id, movie_id |-> m, price_at_order |-> Price(m)] : m \in ms}
KeepCartItems(rows, cid, ms) == rows
\* delete(CartItem).where(cart_id == cid, movie_id.in_(ms))
DeleteCartItems(rows, cid, ms) ==
    {ci \in rows : ~(ci.cart_id = cid /\ ci.movie_id \in ms)}

CartIsMissing(u) == CartOf(u) = {}
\* if not cart or not cart.items
CartIsEmpty(u) == CartOf(u) = {} \/ CartMovies(u) = {}

create_order_from_cart(u) ==
    LET ms == CartMovies(u)
        purchased == PurchasedIn(orders, orderItems, u, ms)
        skipped == PendingIn(orders, orderItems, u, ms)
        eligible == ItemsToOrder(orders, orderItems, u, ms)
        toRemove == purchased \cup skipped
    IN
    IF CartIsEmpty(u) THEN
        /\ last' = Response("create_order", u, 0, "empty_cart")
        /\ UNCHANGED <<db, sessions, procs, auth>>
    ELSE IF PartitionRaises(orders, orderItems, u, ms) THEN
        /\ last' = Response("create_order", u, 0, "server_error")
        /\ UNCHANGED <<db, sessions, procs, auth>>
    ELSE IF eligible = {} THEN
        /\ cartItems' = IF toRemove # {}
                        THEN DeleteCartItems(cartItems, CartIdOf(u), toRemove)
                        ELSE cartItems
        /\ last' = Response("create_order", u, 0, "no_valid_items")
        /\ UNCHANGED <<moviePrice, carts, orders, orderItems, payments, paymentItems,
                       orderSeq, paymentSeq, sessions, procs, auth>>
    ELSE
        /\ orderSeq < MaxOrders
        /\ orderSeq' = orderSeq + 1
        /\ orders' = orders \cup {NewOrder(orderSeq + 1, u, eligible)}
        /\ orderItems' = orderItems \cup NewOrderItems(orderSeq + 1, eligible)
        /\ cartItems' = DeleteCartItems(
                            IF purchased # {}
                            THEN DeleteCartItems(cartItems, CartIdOf(u), toRemove)
                            ELSE cartItems,
                            CartIdOf(u), eligible)
        /\ last' = Response("create_order", u, orderSeq + 1, "ok")
        /\ UNCHANGED <<moviePrice, carts, payments, paymentItems, paymentSeq, sessions, procs, auth>>

update_order_status(oid, st) ==
    IF oid \in OrderIds THEN SetStatus(orders, oid, st) ELSE orders

cancel_order(oid, u) ==
    IF get_order(oid, u) = {} THEN
        /\ last' = Response("cancel", u, oid, "not_found")
        /\ UNCHANGED orders
    ELSE IF OrderById(oid).status # PENDING THEN
        /\ last' = Response("cancel", u, oid, "invalid_transition")
        /\ UNCHANGED orders
    ELSE
        /\ orders' = SetStatus(orders, oid, CANCELED)
        /\ last' = Response("cancel", u, oid, "ok")

update_order_status_for_anyone(u, oid, st) ==
    /\ orders' = update_order_status(oid, st)
    /\ last' = Response("patch_status", u, oid,
                        IF oid \in OrderIds THEN "ok" ELSE "not_found")
    /\ UNCHANGED <<moviePrice, carts, cartItems, orderItems, payments, paymentItems,
                   orderSeq, paymentSeq, sessions, procs, auth>>
\* PATCH /orders/{id}/status
update_order_status_endpoint(u, oid, st) ==
    /\ IF u \notin Admins THEN
           IF st # CANCELED THEN
               /\ last' = Response("patch_status", u, oid, "forbidden")
               /\ UNCHANGED orders
           ELSE cancel_order(oid, u)
       ELSE
           /\ orders' = update_order_status(oid, st)
           /\ last' = Response("patch_status", u, oid,
                               IF oid \in OrderIds THEN "ok" ELSE "not_found")
    /\ UNCHANGED <<moviePrice, carts, cartItems, orderItems, payments, paymentItems,
                   orderSeq, paymentSeq, sessions, procs, auth>>

\* ------------------------------------------------------------- checkout
get_payment_by_order_id(oid) == ScalarOneOrNone({p \in payments : p.order_id = oid})
get_payment_by_session_id(sid) == ScalarOneOrNone({p \in payments : p.session_id = sid})

\* the gateway charges the sum of the unit_amount of the line items, one per
\* OrderItem: int(float(price_at_order) * 100), which is the price in minor
\* units for the prices of the catalog
RECURSIVE AmountTotal(_)
AmountTotal(items) ==
    IF items = {} THEN 0
    ELSE LET oi == CHOOSE x \in items : TRUE
         IN  oi.price_at_order + AmountTotal(items \ {oi})

NewSession(u, oid) ==
    [id |-> Cardinality(sessions) + 1, order_id |-> oid, user_id |-> u, state |-> "open",
     amount_total |-> AmountTotal({oi \in orderItems : oi.order_id = oid})]

create_checkout_session_unguarded(u, oid) ==
    /\ \/ /\ Cardinality(sessions) < MaxSessions
          /\ sessions' = sessions \cup {NewSession(u, oid)}
          /\ last' = Response("checkout", u, oid, "ok")
       \/ /\ last' = Response("checkout", u, oid, "stripe_error")
          /\ UNCHANGED sessions
    /\ UNCHANGED <<db, procs, auth>>
\* POST /orders/{id}/checkout
create_checkout_session(u, oid) ==
    /\ IF get_order(oid, u) = {} THEN
           /\ last' = Response("checkout", u, oid, "not_found")
           /\ UNCHANGED sessions
       ELSE IF OrderById(oid).status # PENDING THEN
           /\ last' = Response("checkout", u, oid, "not_pending")
           /\ UNCHANGED sessions
       ELSE IF get_payment_by_order_id(oid) = "multiple" THEN
           /\ last' = Response("checkout", u, oid, "server_error")
           /\ UNCHANGED sessions
       ELSE IF get_payment_by_order_id(oid) = "one" THEN
           /\ last' = Response("checkout", u, oid, "payment_exists")
           /\ UNCHANGED sessions
       ELSE
           \/ /\ Cardinality(sessions) < MaxSessions
              /\ sessions' = sessions \cup {NewSession(u, oid)}
              /\ last' = Response("checkout", u, oid, "ok")
           \/ /\ last' = Response("checkout", u, oid, "stripe_error")
              /\ UNCHANGED sessions
    /\ UNCHANGED <<db, procs, auth>>

\* the customer pays on the hosted page, or the session runs into its expiry
GatewaySettle(sid, outcome) ==
    /\ \E s \in sessions : s.id = sid /\ s.state = "open"
    /\ sessions' = {IF s.id = sid THEN [s EXCEPT !.state = outcome] ELSE s : s \in sessions}
    /\ last' = Response("gateway", 0, sid, outcome)
    /\ UNCHANGED <<db, procs, auth>>

\* ------------------------------------------------------------- payment ledger
\* Payment.session_id is unique: the INSERT fails when a committed row holds
\* the session id
UniqueViolation(sid) == \E p \in payments : p.session_id = sid

PaymentAttributesWithCurrency ==
    {"id", "user_id", "order_id", "session_id", "payment_intent_id", "created_at",
     "status", "amount", "currency", "external_payment_id", "user", "order", "items"}
\* the mapped attributes of class Payment
PaymentAttributes ==
    {"id", "user_id", "order_id", "session_id", "payment_intent_id", "created_at",
     "status", "amount", "external_payment_id", "user", "order", "items"}
\* the keywords create_payment_from_session passes to Payment(...)
PaymentKeywords ==
    {"user_id", "order_id", "session_id", "payment_intent_id", "amount", "currency",
     "status"}
\* the declarative constructor raises TypeError for a keyword that is not an
\* attribute of the class
InvalidKeywordArgument(keywords, attributes) == keywords \ attributes # {}

PaymentAlwaysInserted(sid) == FALSE
\* db.add(payment); db.flush() is not reached, or fails: Payment(...) raises
\* TypeError, or the INSERT meets the unique index on session_id
PaymentNotInserted(sid) ==
    \/ InvalidKeywordArgument(PaymentKeywords, PaymentAttributes)
    \/ UniqueViolation(sid)

\* amount = amount_total / 100, kept here in minor units
NewPayment(id, s) ==
    [id |-> id, session_id |-> s.id, order_id |-> s.order_id, user_id |-> s.user_id,
     amount |-> s.amount_total]
\* one PaymentItem per OrderItem of the order
NewPaymentItems(id, oid, items) ==
    {[payment_id |-> id, order_id |-> oi.order_id, movie_id |-> oi.movie_id,
      price_at_payment |-> oi.price_at_order] : oi \in {x \in items : x.order_id = oid}}

\* ------------------------------------------------------------- webhook handler
\* the guard of the completed branch: a Payment of this session is on record
PaymentAlreadyRecorded(sid) == get_payment_by_session_id(sid) # "none"

WebhookCompleted(s) ==
    /\ s.state = "complete"
    /\ IF PaymentAlreadyRecorded(s.id) THEN
           /\ last' = Response("wh_completed", s.user_id, s.id, "already_recorded")
           /\ UNCHANGED db
       ELSE IF PaymentNotInserted(s.id) THEN
           /\ last' = Response("wh_completed", s.user_id, s.id, "server_error")
           /\ UNCHANGED db
       ELSE
           /\ paymentSeq' = paymentSeq + 1
           /\ payments' = payments \cup {NewPayment(paymentSeq + 1, s)}
           /\ paymentItems' = paymentItems \cup
                                NewPaymentItems(paymentSeq + 1, s.order_id, orderItems)
           /\ orders' = update_order_status(s.order_id, PAID)
           /\ last' = Response("wh_completed", s.user_id, s.id, "success")
           /\ UNCHANGED <<moviePrice, carts, cartItems, orderItems, orderSeq>>
    /\ UNCHANGED <<sessions, procs, auth>>

WebhookExpiredPendingOnly(s) ==
    /\ s.state = "expired"
    /\ orders' = IF s.order_id \in OrderIds /\ OrderById(s.order_id).status = PENDING
                 THEN update_order_status(s.order_id, CANCELED) ELSE orders
    /\ last' = Response("wh_expired", s.user_id, s.id, "success")
    /\ UNCHANGED <<moviePrice, carts, cartItems, orderItems, payments, paymentItems, orderSeq,
                   paymentSeq, sessions, procs, auth>>
WebhookExpired(s) ==
    /\ s.state = "expired"
    /\ orders' = update_order_status(s.order_id, CANCELED)
    /\ last' = Response("wh_expired", s.user_id, s.id, "success")
    /\ UNCHANGED <<moviePrice, carts, cartItems, orderItems, payments, paymentItems, orderSeq,
                   paymentSeq, sessions, procs, auth>>

\* the endpoint's secret, and what a stripe-signature header may have been
\* signed with ("none": the header is missing)
WebhookSecret == "whsec"
SigHeaders == {"none", "forged", WebhookSecret}
Payloads == {"event", "garbage"}
EventTypes == {"checkout.session.completed", "checkout.session.expired"}
\* event types the handler has no action for
OtherEventTypes == {"payment_intent.payment_failed", "customer.created"}

AcceptAnySignature(sig, payload) == "ok"
\* stripe.Webhook.construct_event: the signature is checked against the
\* secret, then the payload is parsed
verify_webhook_signature(sig, payload) ==
    IF sig # WebhookSecret THEN "invalid_signature"
    ELSE IF payload = "garbage" THEN "invalid_payload"
    ELSE "ok"

WebhookOtherCancels(type, s) ==
    /\ orders' = update_order_status(s.order_id, CANCELED)
    /\ last' = Response("wh_other", 0, s.id, "success")
    /\ UNCHANGED <<moviePrice, carts, cartItems, orderItems, payments, paymentItems,
                   orderSeq, paymentSeq, sessions, procs, auth>>
\* payment_intent.payment_failed (pass) and every type without a branch
WebhookOther(type, s) ==
    /\ last' = Response("wh_other", 0, s.id, "success")
    /\ UNCHANGED <<db, sessions, procs, auth>>

\* POST /webhooks/stripe with the header sig, the body payload and, in the
\* body, an event of the given type for the session object s
stripe_webhook(sig, payload, type, s) ==
    IF sig = "none" THEN
        /\ last' = Response("webhook", 0, s.id, "missing_signature")
        /\ UNCHANGED <<db, sessions, procs, auth>>
    ELSE IF verify_webhook_signature(sig, payload) # "ok" THEN
        /\ last' = Response("webhook", 0, s.id, verify_webhook_signature(sig, payload))
        /\ UNCHANGED <<db, sessions, procs, auth>>
    ELSE IF type = "checkout.session.completed" THEN WebhookCompleted(s)
    ELSE IF type = "checkout.session.expired" THEN WebhookExpired(s)
    ELSE WebhookOther(type, s)

\* ------------------------------------------------------------- requests served one by one
IdleCo == [pc |-> "idle", user |-> 0, cart_id |-> 0, items |-> {}, order_id |-> 0,
           result |-> "none"]
IdleWh == [pc |-> "idle", session |-> 0, payment_id |-> 0, result |-> "none"]
IdleAd == [pc |-> "idle", user |-> 0, movie |-> 0, cart_id |-> 0, result |-> "none"]

\* the account tables before the first registration
NoAccounts ==
    /\ userRows = {}
    /\ activationTokens = {}
    /\ passwordResetTokens = {}
    /\ refreshTokens = {}
    /\ tokenSeq = 0

Init ==
    /\ NoAccounts
    /\ moviePrice = InitialCatalog
    /\ carts = {}
    /\ cartItems = {}
    /\ orders = {}
    /\ orderItems = {}
    /\ payments = {}
    /\ paymentItems = {}
    /\ orderSeq = 0
    /\ paymentSeq = 0
    /\ sessions = {}
    /\ last = Response("none", 0, 0, "none")
    /\ co = [p \in Procs |-> IdleCo]
    /\ wh = [p \in Procs |-> IdleWh]
    /\ ad = [p \in Procs |-> IdleAd]

AddItem == \E u \in Shoppers, m \in MovieIds : add_item_to_cart(u, m)
RemoveItem == \E u \in Shoppers, m \in Movies : remove_item_from_cart(u, m)
CreateOrder == \E u \in Shoppers : create_order_from_cart(u)
\* PATCH /orders/{id}/status from a customer, and from an admin
CustomerPatch ==
    \E u \in Customers, oid \in 1..MaxOrders, st \in OrderStatusEnum :
        update_order_status_endpoint(u, oid, st)
AdminPatch ==
    \E u \in Admins, oid \in 1..MaxOrders, st \in OrderStatusEnum :
        update_order_status_endpoint(u, oid, st)
Checkout == \E u \in Customers, oid \in 1..MaxOrders : create_checkout_session(u, oid)
Gateway == \E sid \in 1..MaxSessions, outcome \in {"complete", "expired"} :
               GatewaySettle(sid, outcome)
DeliverCompleted == \E s \in sessions : WebhookCompleted(s)
DeliverExpired == \E s \in sessions : WebhookExpired(s)

Next ==
    \/ AddItem
    \/ RemoveItem
    \/ CreateOrder
    \/ CustomerPatch
    \/ AdminPatch
    \/ Checkout
    \/ Gateway
    \/ DeliverCompleted
    \/ DeliverExpired

Spec == Init /\ [][Next]_vars

\* ------------------------------------------------------------- the purchase flow
\* What a customer and the gateway do between them, without the admin surface
PurchaseNext ==
    \/ AddItem
    \/ CreateOrder
    \/ CustomerPatch
    \/ Checkout
    \/ Gateway
    \/ DeliverCompleted
    \/ DeliverExpired

PurchaseSpec == Init /\ [][PurchaseNext]_vars

\* ------------------------------------------------------------- the order engine alone
\* Cart store and order engine, with every status reachable through the
\* admin's PATCH: the tables create_order_from_cart and add_item_to_cart read
\* are written by no other handler than these and the webhook's update_order_status.
ShopNext ==
    \/ AddItem
    \/ RemoveItem
    \/ CreateOrder
    \/ CustomerPatch
    \/ AdminPatch

ShopSpec == Init /\ [][ShopNext]_vars

\* ------------------------------------------------------------- roles
\* current_user.group.name == UserGroupEnum.ADMIN
require_admin(u) == u \in Admins

\* GET /orders/all
get_all_orders_endpoint(u) ==
    /\ last' = Response("list_all", u, 0, IF require_admin(u) THEN "ok" ELSE "forbidden")
    /\ UNCHANGED <<db, sessions, procs, auth>>

ListAllOrders == \E u \in Users : get_all_orders_endpoint(u)

RoleNext ==
    \/ AddItem
    \/ CreateOrder
    \/ CustomerPatch
    \/ AdminPatch
    \/ ListAllOrders

RoleSpec == Init /\ [][RoleNext]_vars

\* ------------------------------------------------------------- the payment side alone
\* The order tables after MaxOrders orders were created from carts: pending
\* orders of the shopper, the first of one movie and the later ones of two.
OrderTables(n, itemsOf) ==
    [ords |-> {NewOrder(i, 1, itemsOf[i]) : i \in 1..n},
     items |-> UNION {NewOrderItems(i, itemsOf[i]) : i \in 1..n}]

PayTables ==
    /\ NoAccounts
    /\ moviePrice = InitialCatalog
    /\ LET itemsOf == [i \in 1..MaxOrders |-> {m \in Movies : m <= i}]
       IN  /\ orders = OrderTables(MaxOrders, itemsOf).ords
           /\ orderItems = OrderTables(MaxOrders, itemsOf).items
           /\ orderSeq = MaxOrders
    /\ carts = {[id |-> 1, user_id |-> 1]}
    /\ cartItems = {}
    /\ payments = {}
    /\ paymentItems = {}
    /\ paymentSeq = 0
    /\ last = Response("none", 0, 0, "none")
    /\ co = [p \in Procs |-> IdleCo]
    /\ wh = [p \in Procs |-> IdleWh]
    /\ ad = [p \in Procs |-> IdleAd]

PayInit == PayTables /\ sessions = {}

\* the owner cancels an order, and asks for a checkout session
OwnerCancel ==
    \E u \in Shoppers, oid \in 1..MaxOrders :
        update_order_status_endpoint(u, oid, CANCELED)
OwnerCheckout ==
    \E u \in Shoppers, oid \in 1..MaxOrders : create_checkout_session(u, oid)

PayNext ==
    \/ OwnerCancel
    \/ OwnerCheckout
    \/ Gateway
    \/ DeliverCompleted
    \/ DeliverExpired

PaySpec == PayInit /\ [][PayNext]_vars

\* ------------------------------------------------------------- checkout by any customer
CheckoutNext ==
    \/ Checkout
    \/ OwnerCancel
    \/ AdminPatch
    \/ Gateway
    \/ DeliverCompleted
    \/ DeliverExpired

CheckoutSpec == PayInit /\ [][CheckoutNext]_vars

\* ------------------------------------------------------------- the webhook endpoint
\* a request that the gateway did not send: no header, a signature made
\* without the secret, or a body that is no event; what it says about sessions
\* and orders is up to its sender
DeliverUnverified ==
    \E sig \in SigHeaders, payload \in Payloads, type \in EventTypes, i \in 1..MaxSessions :
        /\ ~(sig = WebhookSecret /\ payload = "event")
        /\ stripe_webhook(sig, payload, type,
                          [id |-> i, order_id |-> i, user_id |-> 1,
                           state |-> IF type = "checkout.session.completed"
                                     THEN "complete" ELSE "expired",
                           amount_total |-> 0])

\* an event of another type, signed by the gateway, about a payment for one
\* of its sessions
DeliverOther ==
    \E type \in OtherEventTypes, s \in sessions :
        stripe_webhook(WebhookSecret, "event", type, s)

WebhookNext ==
    \/ OwnerCancel
    \/ OwnerCheckout
    \/ Gateway
    \/ DeliverCompleted
    \/ DeliverExpired
    \/ DeliverUnverified
    \/ DeliverOther

WebhookSpec == PayInit /\ [][WebhookNext]_vars

\* ------------------------------------------------------------- the catalog and the orders
clear_cart(u) ==
    /\ carts' = CartsAfterGetOrCreate(u)
    /\ cartItems' = {ci \in cartItems : ~\E c \in CartOf(u) : ci.cart_id = c.id}
    /\ last' = Response("clear_cart", u, 0, "ok")
    /\ UNCHANGED <<moviePrice, orders, orderItems, payments, paymentItems, orderSeq,
                   paymentSeq, sessions, procs, auth>>

\* PATCH /movies/{id} with a price, from a moderator or an admin
update_movie(u, m, price) ==
    /\ IF m \notin Movies THEN
           /\ last' = Response("update_movie", u, m, "not_found")
           /\ UNCHANGED moviePrice
       ELSE
           /\ moviePrice' = [moviePrice EXCEPT ![m] = price]
           /\ last' = Response("update_movie", u, m, "ok")
    /\ UNCHANGED <<carts, cartItems, orders, orderItems, payments, paymentItems,
                   orderSeq, paymentSeq, sessions, procs, auth>>

\* DELETE /orders/{id}: the order goes with its items (cascade); an order
\* with a Payment cannot go, payments.order_id being NOT NULL
delete_order(u, oid) ==
    /\ IF oid \notin OrderIds THEN
           /\ last' = Response("delete_order", u, oid, "not_found")
           /\ UNCHANGED <<orders, orderItems>>
       ELSE IF \E p \in payments : p.order_id = oid THEN
           /\ last' = Response("delete_order", u, oid, "server_error")
           /\ UNCHANGED <<orders, orderItems>>
       ELSE
           /\ orders' = {o \in orders : o.id # oid}
           /\ orderItems' = {oi \in orderItems : oi.order_id # oid}
           /\ last' = Response("delete_order", u, oid, "ok")
    /\ UNCHANGED <<moviePrice, carts, cartItems, payments, paymentItems, orderSeq,
                   paymentSeq, sessions, procs, auth>>

ClearCart == \E u \in Shoppers : clear_cart(u)
UpdateMovie == \E u \in Admins, m \in MovieIds, price \in Prices : update_movie(u, m, price)
AdminDelete == \E u \in Admins, oid \in 1..MaxOrders : delete_order(u, oid)

\* the order engine while the staff edits the catalog and deletes orders
CatalogNext ==
    \/ AddItem
    \/ CreateOrder
    \/ UpdateMovie
    \/ OwnerCancel
    \/ AdminDelete

CatalogSpec == Init /\ [][CatalogNext]_vars

\* an order that exists, and every request that is served while it does: cart
\* operations, catalog edits, cancel, PATCH status, checkout and webhooks
SnapshotNext ==
    \/ AddItem
    \/ RemoveItem
    \/ ClearCart
    \/ UpdateMovie
    \/ OwnerCancel
    \/ AdminPatch
    \/ OwnerCheckout
    \/ Gateway
    \/ DeliverCompleted
    \/ DeliverExpired

\* one pending order of the shopper, created from a cart of both movies at
\* the initial prices
SnapshotInit ==
    /\ NoAccounts
    /\ moviePrice = InitialCatalog
    /\ orders = OrderTables(1, [i \in {1} |-> Movies]).ords
    /\ orderItems = OrderTables(1, [i \in {1} |-> Movies]).items
    /\ orderSeq = 1
    /\ carts = {[id |-> 1, user_id |-> 1]}
    /\ cartItems = {}
    /\ payments = {}
    /\ paymentItems = {}
    /\ paymentSeq = 0
    /\ sessions = {}
    /\ last = Response("none", 0, 0, "none")
    /\ co = [p \in Procs |-> IdleCo]
    /\ wh = [p \in Procs |-> IdleWh]
    /\ ad = [p \in Procs |-> IdleAd]

SnapshotSpec == SnapshotInit /\ [][SnapshotNext]_vars

\* ------------------------------------------------------------- concurrent create_order_from_cart
\* Each request runs in its own AsyncSession: what it adds, flushes or deletes
\* stays in its transaction until db.commit(), and is dropped when the session
\* is closed without one.  Every statement reads the committed tables.

OrdersAfterFlushCommitted(id, u, ms) == orders \cup {NewOrder(id, u, ms)}
\* the orders table the other requests see after db.add(order); db.flush()
OrdersAfterFlush(id, u, ms) == orders

CoLoadCart(p, u) ==
    /\ co[p].pc = "idle"
    /\ IF CartIsEmpty(u) THEN
           co' = [co EXCEPT ![p] = [IdleCo EXCEPT !.pc = "done", !.user = u,
                                                  !.result = "empty_cart"]]
       ELSE
           co' = [co EXCEPT ![p] = [IdleCo EXCEPT !.pc = "loaded", !.user = u,
                                                  !.cart_id = CartIdOf(u),
                                                  !.items = CartMovies(u)]]
    /\ UNCHANGED <<db, sessions, last, auth, wh, ad>>

CoPartition(p) ==
    LET u == co[p].user
        ms == co[p].items
        purchased == PurchasedIn(orders, orderItems, u, ms)
        skipped == PendingIn(orders, orderItems, u, ms)
        eligible == ItemsToOrder(orders, orderItems, u, ms)
        toRemove == purchased \cup skipped
    IN
    /\ co[p].pc = "loaded"
    /\ IF PartitionRaises(orders, orderItems, u, ms) THEN
           /\ co' = [co EXCEPT ![p].pc = "done", ![p].result = "server_error"]
           /\ UNCHANGED cartItems
       ELSE IF eligible = {} THEN
           /\ cartItems' = DeleteCartItems(cartItems, co[p].cart_id, toRemove)
           /\ co' = [co EXCEPT ![p].pc = "done", ![p].result = "no_valid_items"]
       ELSE
           /\ co' = [co EXCEPT ![p].pc = "partitioned", ![p].items = eligible]
           /\ UNCHANGED cartItems
    /\ UNCHANGED <<moviePrice, carts, orders, orderItems, payments, paymentItems, orderSeq,
                   paymentSeq, sessions, last, auth, wh, ad>>

CoFlush(p) ==
    /\ co[p].pc = "partitioned"
    /\ orderSeq < MaxOrders
    /\ orderSeq' = orderSeq + 1
    /\ orders' = OrdersAfterFlush(orderSeq + 1, co[p].user, co[p].items)
    /\ co' = [co EXCEPT ![p].pc = "flushed", ![p].order_id = orderSeq + 1]
    /\ UNCHANGED <<moviePrice, carts, cartItems, orderItems, payments, paymentItems,
                   paymentSeq, sessions, last, auth, wh, ad>>

\* db.add(order_item) for each item, then the DELETE of the ordered movies, in
\* the transaction
CoStage(p) ==
    /\ co[p].pc = "flushed"
    /\ co' = [co EXCEPT ![p].pc = "staged"]
    /\ UNCHANGED <<db, sessions, last, auth, wh, ad>>

CoCommit(p) ==
    /\ co[p].pc = "staged"
    /\ orders' = orders \cup {NewOrder(co[p].order_id, co[p].user, co[p].items)}
    /\ orderItems' = orderItems \cup NewOrderItems(co[p].order_id, co[p].items)
    /\ cartItems' = DeleteCartItems(cartItems, co[p].cart_id, co[p].items)
    /\ co' = [co EXCEPT ![p].pc = "done", ![p].result = "ok"]
    /\ UNCHANGED <<moviePrice, carts, payments, paymentItems, orderSeq, paymentSeq,
                   sessions, last, auth, wh, ad>>

\* the request dies before its commit (connection lost, request cancelled):
\* the session is closed and the transaction rolled back
CoAbort(p) ==
    /\ co[p].pc \in {"loaded", "partitioned", "flushed", "staged"}
    /\ co' = [co EXCEPT ![p].pc = "done", ![p].result = "aborted"]
    /\ UNCHANGED <<db, sessions, last, auth, wh, ad>>

CoReturn(p) ==
    /\ co[p].pc = "done"
    /\ co' = [co EXCEPT ![p] = IdleCo]
    /\ UNCHANGED <<db, sessions, last, auth, wh, ad>>

ConcOrderNext ==
    \/ AddItem
    \/ \E p \in Procs, u \in Shoppers : CoLoadCart(p, u)
    \/ \E p \in Procs : CoPartition(p)
    \/ \E p \in Procs : CoFlush(p)
    \/ \E p \in Procs : CoStage(p)
    \/ \E p \in Procs : CoCommit(p)
    \/ \E p \in Procs : CoAbort(p)
    \/ \E p \in Procs : CoReturn(p)

ConcOrderSpec == Init /\ [][ConcOrderNext]_vars

\* ------------------------------------------------------------- concurrent webhook deliveries
\* the INSERT waits while another transaction holds an uncommitted row with it
UniqueWait(p, sid) ==
    \E q \in Procs \ {p} : wh[q].pc = "flushed" /\ wh[q].session = sid

SessionById(sid) == CHOOSE s \in sessions : s.id = sid

WhCheck(p, s) ==
    /\ wh[p].pc = "idle"
    /\ s.state = "complete"
    /\ IF PaymentAlreadyRecorded(s.id) THEN
           wh' = [wh EXCEPT ![p] = [IdleWh EXCEPT !.pc = "done", !.session = s.id,
                                                  !.result = "already_recorded"]]
       ELSE
           wh' = [wh EXCEPT ![p] = [IdleWh EXCEPT !.pc = "checked", !.session = s.id]]
    /\ UNCHANGED <<db, sessions, last, auth, co, ad>>

\* payment = Payment(...); db.add(payment); db.flush()
WhFlush(p) ==
    /\ wh[p].pc = "checked"
    /\ ~UniqueWait(p, wh[p].session)
    /\ IF PaymentNotInserted(wh[p].session) THEN
           /\ wh' = [wh EXCEPT ![p].pc = "done", ![p].result = "server_error"]
           /\ UNCHANGED paymentSeq
       ELSE
           /\ paymentSeq < MaxPayments
           /\ paymentSeq' = paymentSeq + 1
           /\ wh' = [wh EXCEPT ![p].pc = "flushed", ![p].payment_id = paymentSeq + 1]
    /\ UNCHANGED <<moviePrice, carts, cartItems, orders, orderItems, payments, paymentItems,
                   orderSeq, sessions, last, auth, co, ad>>

\* the PaymentItems are added and the transaction is committed
WhCommit(p) ==
    LET s == SessionById(wh[p].session) IN
    /\ wh[p].pc = "flushed"
    /\ payments' = payments \cup {NewPayment(wh[p].payment_id, s)}
    /\ paymentItems' = paymentItems \cup
                         NewPaymentItems(wh[p].payment_id, s.order_id, orderItems)
    /\ wh' = [wh EXCEPT ![p].pc = "recorded"]
    /\ UNCHANGED <<moviePrice, carts, cartItems, orders, orderItems, orderSeq, paymentSeq,
                   sessions, last, auth, co, ad>>

WhUpdateStatus(p) ==
    /\ wh[p].pc = "recorded"
    /\ orders' = update_order_status(SessionById(wh[p].session).order_id, PAID)
    /\ wh' = [wh EXCEPT ![p].pc = "done", ![p].result = "success"]
    /\ UNCHANGED <<moviePrice, carts, cartItems, orderItems, payments, paymentItems, orderSeq,
                   paymentSeq, sessions, last, auth, co, ad>>

\* the delivery dies before its next commit: what is uncommitted is rolled back
WhAbort(p) ==
    /\ wh[p].pc \in {"checked", "flushed", "recorded"}
    /\ wh' = [wh EXCEPT ![p].pc = "done", ![p].result = "aborted"]
    /\ UNCHANGED <<db, sessions, last, auth, co, ad>>

WhReturn(p) ==
    /\ wh[p].pc = "done"
    /\ wh' = [wh EXCEPT ![p] = IdleWh]
    /\ UNCHANGED <<db, sessions, last, auth, co, ad>>

\* the deliveries start once checkout sessions were created for pending orders
\* of the shopper and paid on the hosted page
ConcPayInit ==
    /\ PayTables
    /\ \E orderOf \in [1..MaxSessions -> 1..MaxOrders] :
           sessions = {[id |-> i, order_id |-> orderOf[i], user_id |-> 1,
                        state |-> "complete",
                        amount_total |-> AmountTotal({oi \in orderItems :
                                                        oi.order_id = orderOf[i]})]
                       : i \in 1..MaxSessions}

\* create_payment_from_session and update_order_status, in program order
WhRecord(p) ==
    IF wh[p].pc = "checked" THEN WhFlush(p)
    ELSE IF wh[p].pc = "flushed" THEN WhCommit(p)
    ELSE WhUpdateStatus(p)

ConcPayNext ==
    \/ \E p \in Procs, s \in sessions : WhCheck(p, s)
    \/ \E p \in Procs : WhRecord(p)
    \/ \E p \in Procs : WhAbort(p)
    \/ \E p \in Procs : WhReturn(p)

ConcPaySpec == ConcPayInit /\ [][ConcPayNext]_vars

\* the gateway delivers an event again until a delivery is answered with
\* success, so a delivery that can take a step does
RedeliverySpec == ConcPayInit /\ [][ConcPayNext]_vars /\ WF_vars(ConcPayNext)

\* ------------------------------------------------------------- concurrent add_item_to_cart
\* Each request commits its INSERTs one by one: db.add(cart); db.commit() in
\* get_or_create_cart, db.add(cart_item); db.commit() at the end.  An INSERT
\* that meets a committed row of the same key fails with IntegrityError, which
\* neither add_item_to_cart nor the route catches.

NoCartUniqueIndex(u) == FALSE
\* Cart.user_id is unique
CartUniqueViolation(u) == \E c \in carts : c.user_id = u

\* the movie lookup and the purchased check
AdCheck(p, u, m) ==
    /\ ad[p].pc = "idle"
    /\ IF m \notin Movies THEN
           ad' = [ad EXCEPT ![p] = [IdleAd EXCEPT !.pc = "done", !.user = u, !.movie = m,
                                                  !.result = "not_found"]]
       ELSE IF is_movie_purchased(u, m) = "error" THEN
           ad' = [ad EXCEPT ![p] = [IdleAd EXCEPT !.pc = "done", !.user = u, !.movie = m,
                                                  !.result = "server_error"]]
       ELSE IF is_movie_purchased(u, m) = "yes" THEN
           ad' = [ad EXCEPT ![p] = [IdleAd EXCEPT !.pc = "done", !.user = u, !.movie = m,
                                                  !.result = "repeat_purchase"]]
       ELSE
           ad' = [ad EXCEPT ![p] = [IdleAd EXCEPT !.pc = "checked", !.user = u, !.movie = m]]
    /\ UNCHANGED <<db, sessions, last, auth, co, wh>>

\* get_or_create_cart: the SELECT
AdSelectCart(p) ==
    /\ ad[p].pc = "checked"
    /\ IF ScalarOneOrNone(CartOf(ad[p].user)) = "multiple" THEN
           ad' = [ad EXCEPT ![p].pc = "done", ![p].result = "server_error"]
       ELSE IF CartOf(ad[p].user) # {} THEN
           ad' = [ad EXCEPT ![p].pc = "has_cart", ![p].cart_id = CartIdOf(ad[p].user)]
       ELSE
           ad' = [ad EXCEPT ![p].pc = "no_cart"]
    /\ UNCHANGED <<db, sessions, last, auth, co, wh>>

\* get_or_create_cart: db.add(cart); db.commit()
AdCreateCart(p) ==
    /\ ad[p].pc = "no_cart"
    /\ IF CartUniqueViolation(ad[p].user) THEN
           /\ ad' = [ad EXCEPT ![p].pc = "done", ![p].result = "server_error"]
           /\ UNCHANGED carts
       ELSE
           /\ carts' = carts \cup {[id |-> Cardinality(carts) + 1, user_id |-> ad[p].user]}
           /\ ad' = [ad EXCEPT ![p].pc = "has_cart", ![p].cart_id = Cardinality(carts) + 1]
    /\ UNCHANGED <<moviePrice, cartItems, orders, orderItems, payments, paymentItems,
                   orderSeq, paymentSeq, sessions, last, auth, co, wh>>

\* the SELECT of the existing item
AdSelectItem(p) ==
    /\ ad[p].pc = "has_cart"
    /\ IF existing_item(ad[p].cart_id, ad[p].movie) = "none" THEN
           ad' = [ad EXCEPT ![p].pc = "absent"]
       ELSE IF existing_item(ad[p].cart_id, ad[p].movie) = "one" THEN
           ad' = [ad EXCEPT ![p].pc = "done", ![p].result = "already_in_cart"]
       ELSE
           ad' = [ad EXCEPT ![p].pc = "done", ![p].result = "server_error"]
    /\ UNCHANGED <<db, sessions, last, auth, co, wh>>

\* db.add(cart_item); db.commit()
AdInsert(p) ==
    /\ ad[p].pc = "absent"
    /\ IF CartItemUniqueViolation(ad[p].cart_id, ad[p].movie) THEN
           /\ ad' = [ad EXCEPT ![p].pc = "lost", ![p].result = "server_error"]
           /\ UNCHANGED cartItems
       ELSE
           /\ cartItems' = cartItems \cup
                             {NewCartItem(cartItems, ad[p].cart_id, ad[p].movie)}
           /\ ad' = [ad EXCEPT ![p].pc = "done", ![p].result = "ok"]
    /\ UNCHANGED <<moviePrice, carts, orders, orderItems, payments, paymentItems,
                   orderSeq, paymentSeq, sessions, last, auth, co, wh>>

\* the response is sent
AdReturn(p) ==
    /\ ad[p].pc \in {"done", "lost"}
    /\ ad' = [ad EXCEPT ![p] = IdleAd]
    /\ UNCHANGED <<db, sessions, last, auth, co, wh>>

ConcCartNext ==
    \/ \E p \in Procs, u \in Customers, m \in MovieIds : AdCheck(p, u, m)
    \/ \E p \in Procs : AdSelectCart(p)
    \/ \E p \in Procs : AdCreateCart(p)
    \/ \E p \in Procs : AdSelectItem(p)
    \/ \E p \in Procs : AdInsert(p)
    \/ \E p \in Procs : AdReturn(p)
    \/ RemoveItem

ConcCartSpec == Init /\ [][ConcCartNext]_vars

\* ------------------------------------------------------------- accounts
\* e-mail addresses, by number
Emails == {1, 2}
Passwords == {"pw1", "pw2", "weak"}
\* the values a client may send as a token: 0 was never issued
TokenValues == 0..MaxTokens

\* raises for a password that does not meet the rules
validate_password(pw) == pw # "weak"
hash_password(pw) == <<"bcrypt", pw>>
verify_password(pw, hashed) == hashed = hash_password(pw)

\* select(User).where(User.email == email) ... .first()
UserByEmail(e) == {u \in userRows : u.email = e}
TokenOf(rows, e) == {t \in rows : t.user = e}
\* jwt_manager.create_access_token / create_refresh_token: a value not
\* issued before
NewToken(e) == [user |-> e, token |-> tokenSeq + 1, expired |-> FALSE]

\* POST /accounts/register/
register_user(e, pw) ==
    /\ IF ~validate_password(pw) THEN
           /\ last' = Response("register", e, 0, "invalid_password")
           /\ UNCHANGED auth
       ELSE IF UserByEmail(e) # {} THEN
           /\ last' = Response("register", e, 0, "conflict")
           /\ UNCHANGED auth
       ELSE
           /\ tokenSeq < MaxTokens
           /\ userRows' = userRows \cup
                  {[email |-> e, hashed_password |-> hash_password(pw), is_active |-> FALSE]}
           /\ activationTokens' = activationTokens \cup {NewToken(e)}
           /\ tokenSeq' = tokenSeq + 1
           /\ last' = Response("register", e, 0, "created")
           /\ UNCHANGED <<passwordResetTokens, refreshTokens>>
    /\ UNCHANGED <<db, sessions, procs>>

activate_any_user(e, t) ==
    /\ IF UserByEmail(e) = {} THEN
           /\ last' = Response("activate", e, t, "invalid_token")
           /\ UNCHANGED auth
       ELSE
           /\ userRows' = {IF u.email = e THEN [u EXCEPT !.is_active = TRUE] ELSE u :
                              u \in userRows}
           /\ activationTokens' = activationTokens \ TokenOf(activationTokens, e)
           /\ last' = Response("activate", e, t, "ok")
           /\ UNCHANGED <<passwordResetTokens, refreshTokens, tokenSeq>>
    /\ UNCHANGED <<db, sessions, procs>>
\* POST /accounts/activate/
activate_user(e, t) ==
    /\ IF UserByEmail(e) = {} THEN
           /\ last' = Response("activate", e, t, "invalid_token")
           /\ UNCHANGED auth
       ELSE IF \E u \in UserByEmail(e) : u.is_active THEN
           /\ last' = Response("activate", e, t, "already_active")
           /\ UNCHANGED auth
       ELSE IF \A k \in TokenOf(activationTokens, e) : k.token # t THEN
           /\ last' = Response("activate", e, t, "invalid_token")
           /\ UNCHANGED auth
       ELSE IF \E k \in TokenOf(activationTokens, e) : k.expired THEN
           /\ last' = Response("activate", e, t, "invalid_token")
           /\ UNCHANGED auth
       ELSE
           /\ userRows' = {IF u.email = e THEN [u EXCEPT !.is_active = TRUE] ELSE u :
                              u \in userRows}
           /\ activationTokens' = activationTokens \ TokenOf(activationTokens, e)
           /\ last' = Response("activate", e, t, "ok")
           /\ UNCHANGED <<passwordResetTokens, refreshTokens, tokenSeq>>
    /\ UNCHANGED <<db, sessions, procs>>

\* POST /accounts/login/
login_user(e, pw) ==
    /\ IF \A u \in UserByEmail(e) : ~verify_password(pw, u.hashed_password) THEN
           /\ last' = Response("login", e, pw, "unauthorized")
           /\ UNCHANGED auth
       ELSE IF \E u \in UserByEmail(e) : ~u.is_active THEN
           /\ last' = Response("login", e, pw, "inactive")
           /\ UNCHANGED auth
       ELSE
           /\ tokenSeq < MaxTokens
           /\ refreshTokens' = refreshTokens \cup {[user |-> e, token |-> tokenSeq + 1]}
           /\ tokenSeq' = tokenSeq + 1
           /\ last' = Response("login", e, pw, "ok")
           /\ UNCHANGED <<userRows, activationTokens, passwordResetTokens>>
    /\ UNCHANGED <<db, sessions, procs>>

\* POST /accounts/password-reset/request/
request_password_reset(e) ==
    /\ IF \A u \in UserByEmail(e) : ~u.is_active THEN
           /\ last' = Response("reset_request", e, 0, "ok")
           /\ UNCHANGED auth
       ELSE
           /\ tokenSeq < MaxTokens
           /\ passwordResetTokens' =
                  (passwordResetTokens \ TokenOf(passwordResetTokens, e)) \cup {NewToken(e)}
           /\ tokenSeq' = tokenSeq + 1
           /\ last' = Response("reset_request", e, 0, "ok")
           /\ UNCHANGED <<userRows, activationTokens, refreshTokens>>
    /\ UNCHANGED <<db, sessions, procs>>

complete_password_reset_with_any_token(e, t, pw) ==
    /\ IF \A u \in UserByEmail(e) : ~u.is_active THEN
           /\ last' = Response("reset_complete", e, t, "invalid")
           /\ UNCHANGED auth
       ELSE IF ~validate_password(pw) THEN
           /\ last' = Response("reset_complete", e, t, "invalid_password")
           /\ UNCHANGED auth
       ELSE
           /\ userRows' = {IF u.email = e
                           THEN [u EXCEPT !.hashed_password = hash_password(pw)]
                           ELSE u : u \in userRows}
           /\ passwordResetTokens' = passwordResetTokens \ TokenOf(passwordResetTokens, e)
           /\ last' = Response("reset_complete", e, t, "ok")
           /\ UNCHANGED <<activationTokens, refreshTokens, tokenSeq>>
    /\ UNCHANGED <<db, sessions, procs>>
\* POST /accounts/reset-password/complete/
complete_password_reset(e, t, pw) ==
    /\ IF \A u \in UserByEmail(e) : ~u.is_active THEN
           /\ last' = Response("reset_complete", e, t, "invalid")
           /\ UNCHANGED auth
       ELSE IF \/ \A k \in TokenOf(passwordResetTokens, e) : k.token # t
               \/ \E k \in TokenOf(passwordResetTokens, e) : k.expired THEN
           /\ passwordResetTokens' = passwordResetTokens \ TokenOf(passwordResetTokens, e)
           /\ last' = Response("reset_complete", e, t, "invalid")
           /\ UNCHANGED <<userRows, activationTokens, refreshTokens, tokenSeq>>
       ELSE IF ~validate_password(pw) THEN
           /\ last' = Response("reset_complete", e, t, "invalid_password")
           /\ UNCHANGED auth
       ELSE
           /\ userRows' = {IF u.email = e
                           THEN [u EXCEPT !.hashed_password = hash_password(pw)]
                           ELSE u : u \in userRows}
           /\ passwordResetTokens' = passwordResetTokens \ TokenOf(passwordResetTokens, e)
           /\ last' = Response("reset_complete", e, t, "ok")
           /\ UNCHANGED <<activationTokens, refreshTokens, tokenSeq>>
    /\ UNCHANGED <<db, sessions, procs>>

\* time passes the expires_at of a stored token
TokenExpires(e) ==
    /\ \E k \in TokenOf(activationTokens \cup passwordResetTokens, e) : ~k.expired
    /\ activationTokens' = {IF k.user = e THEN [k EXCEPT !.expired = TRUE] ELSE k :
                               k \in activationTokens}
    /\ passwordResetTokens' = {IF k.user = e THEN [k EXCEPT !.expired = TRUE] ELSE k :
                                  k \in passwordResetTokens}
    /\ last' = Response("clock", e, 0, "none")
    /\ UNCHANGED <<userRows, refreshTokens, tokenSeq>>
    /\ UNCHANGED <<db, sessions, procs>>

\* the periodic task: delete(...).where(expires_at < now)
cleanup_expired_tokens ==
    /\ \E k \in activationTokens \cup passwordResetTokens : k.expired
    /\ activationTokens' = {k \in activationTokens : ~k.expired}
    /\ passwordResetTokens' = {k \in passwordResetTokens : ~k.expired}
    /\ last' = Response("cleanup", 0, 0, "ok")
    /\ UNCHANGED <<userRows, refreshTokens, tokenSeq>>
    /\ UNCHANGED <<db, sessions, procs>>

Register == \E e \in Emails, pw \in Passwords : register_user(e, pw)
Activate == \E e \in Emails, t \in TokenValues : activate_user(e, t)
Login == \E e \in Emails, pw \in Passwords : login_user(e, pw)
RequestReset == \E e \in Emails : request_password_reset(e)
CompleteReset ==
    \E e \in Emails, t \in TokenValues, pw \in Passwords : complete_password_reset(e, t, pw)
Clock == \E e \in Emails : TokenExpires(e)
Cleanup == cleanup_expired_tokens

AccountNext ==
    \/ Register
    \/ Activate
    \/ Login
    \/ RequestReset
    \/ CompleteReset
    \/ Clock
    \/ Cleanup

AccountSpec == Init /\ [][AccountNext]_vars

\* ============================================================= claims
PaymentsOfOrder(oid) == {p \in payments : p.order_id = oid}
PaymentsOfSession(sid) == {p \in payments : p.session_id = sid}
ItemsOfOrder(oid) == {oi \in orderItems : oi.order_id = oid}
MoviesOfOrder(oid) == {oi.movie_id : oi \in ItemsOfOrder(oid)}

\* C1: an order that is paid or canceled keeps its status in every step,
\* whichever of cancel, PATCH status and the webhook events is served.
C1_TerminalStatusKept ==
    [][\A o \in orders :
          o.status \in {PAID, CANCELED} =>
              \E o2 \in orders' : o2.id = o.id /\ o2.status = o.status]_vars

\* C2: every served delivery of a checkout.session.completed event leaves
\* exactly one Payment of its session and the order paid; a delivery that
\* directly follows one for the same session answers "already recorded" and
\* changes neither payments nor orders.
C2_RedeliveryIsNoOp ==
    [][(last'.op = "wh_completed")
       => (/\ Cardinality({p \in payments' : p.session_id = last'.arg}) = 1
           /\ \A s \in sessions : s.id = last'.arg =>
                  \E o \in orders' : o.id = s.order_id /\ o.status = PAID
           /\ (last.op = "wh_completed" /\ last.arg = last'.arg)
                  => (/\ last'.result = "already_recorded"
                      /\ payments' = payments
                      /\ paymentItems' = paymentItems
                      /\ orders' = orders))]_vars

\* C3: every order has at most one Payment row.
C3_AtMostOnePaymentPerOrder ==
    \A oid \in OrderIds : Cardinality(PaymentsOfOrder(oid)) <= 1

\* a completed event was delivered for an order for which two checkout
\* sessions were created and completed
C3_Witness ==
    /\ last.op = "wh_completed"
    /\ \E s1 \in sessions, s2 \in sessions :
           /\ s1.id = last.arg /\ s2.id # s1.id
           /\ s1.order_id = s2.order_id
           /\ s1.state = "complete" /\ s2.state = "complete"

\* C4: two overlapping create_order_from_cart requests of one user never both
\* succeed with an order that holds the same movie.
C4_NotBothOrderSameMovie ==
    \A p \in Procs, q \in Procs :
        (/\ p # q
         /\ co[p].pc = "done" /\ co[p].result = "ok"
         /\ co[q].pc = "done" /\ co[q].result = "ok"
         /\ co[p].user = co[q].user)
        => co[p].items \cap co[q].items = {}

\* C5: at most one Payment row per session_id is ever committed, also when
\* deliveries for the session overlap.
C5_OnePaymentPerSession ==
    \A sid \in 1..MaxSessions : Cardinality(PaymentsOfSession(sid)) <= 1

\* two overlapping deliveries for one session passed the existing-payment
\* check, and both ended
C5_Witness ==
    \E p \in Procs, q \in Procs :
        /\ p # q
        /\ wh[p].session = wh[q].session
        /\ wh[p].pc = "done" /\ wh[p].result \in {"success", "server_error"}
        /\ wh[q].pc = "done" /\ wh[q].result \in {"success", "server_error"}

C7_NoCartItemForPendingMovie ==
    \A u \in Users : \A m \in CartMovies(u) :
        OrderItemRows(orders, orderItems, u, m, PENDING) = {}

\* C8: add_item_to_cart for a movie that is in one or more PAID orders of the
\* user answers with the repeat-purchase error and adds no CartItem.
C8_RepeatPurchaseRejected ==
    [][\A u \in Users, m \in Movies :
          (/\ OrderItemRows(orders, orderItems, u, m, PAID) # {}
           /\ last'.op = "add_item" /\ last'.user = u /\ last'.arg = m)
          => (last'.result = "repeat_purchase" /\ cartItems' = cartItems)]_vars

\* the cart movies of u that are in no PAID and no PENDING order of u
EligibleInCart(u) ==
    {m \in CartMovies(u) :
        ~\E o \in orders : /\ o.user_id = u
                            /\ o.status \in {PAID, PENDING}
                            /\ m \in MoviesOfOrder(o.id)}

\* C9: a successful create_order_from_cart on a cart with N >= 1 eligible
\* items adds exactly one order, pending, of the user, with exactly the N
\* eligible movies as its items, and no eligible movie stays in the cart.
C9_ExactlyOnceConversion ==
    [][\A u \in Users :
          (/\ last'.op = "create_order" /\ last'.user = u /\ last'.result = "ok")
          => (/\ Cardinality(EligibleInCart(u)) >= 1
              /\ Cardinality(orders' \ orders) = 1
              /\ \A o \in orders' \ orders :
                     /\ o.id \notin OrderIds
                     /\ o.id = last'.arg
                     /\ o.user_id = u
                     /\ o.status = PENDING
                     /\ {oi \in orderItems' : oi.order_id = o.id} = orderItems' \ orderItems
                     /\ {oi.movie_id : oi \in orderItems' \ orderItems} = EligibleInCart(u)
                     /\ Cardinality(orderItems' \ orderItems) = Cardinality(EligibleInCart(u))
              /\ orders \subseteq orders'
              /\ orderItems \subseteq orderItems'
              /\ \A ci \in cartItems' :
                     ci.cart_id = CartIdOf(u) => ci.movie_id \notin EligibleInCart(u))]_vars

\* an order of two items was just created from the cart
C9_Witness ==
    /\ last.op = "create_order"
    /\ last.result = "ok"
    /\ Cardinality(ItemsOfOrder(last.arg)) = 2
    /\ OrderById(last.arg).status = PENDING
    /\ CartMovies(last.user) = {}

NonEligibleInCart(u) == CartMovies(u) \ EligibleInCart(u)

\* C11: whenever create_order_from_cart is served on a non-empty cart, no
\* movie that was in the cart and in a paid or pending order of the user is
\* in the cart afterwards, whether an order was created or the call failed.
C11_NonEligibleRemoved ==
    [][\A u \in Users :
          (/\ last'.op = "create_order" /\ last'.user = u
           /\ CartOf(u) # {} /\ CartMovies(u) # {})
          => \A m \in NonEligibleInCart(u) :
                 ~\E ci \in cartItems' : ci.cart_id = CartIdOf(u) /\ ci.movie_id = m]_vars

RECURSIVE SumPriceAtOrder(_)
SumPriceAtOrder(items) ==
    IF items = {} THEN 0
    ELSE LET oi == CHOOSE x \in items : TRUE
         IN  oi.price_at_order + SumPriceAtOrder(items \ {oi})

\* C12: in every state, the total_amount of each order is the sum of the
\* price_at_order of its OrderItems.
C12_TotalIsSumOfItems ==
    \A o \in orders : o.total_amount = SumPriceAtOrder(ItemsOfOrder(o.id))

\* an order of two items stands at a total that the catalog no longer gives,
\* next to an order created at other prices
C12_Witness ==
    \E o \in orders :
        /\ Cardinality(ItemsOfOrder(o.id)) = 2
        /\ o.total_amount # SumPrices(MoviesOfOrder(o.id))
        /\ \E o2 \in orders :
               /\ o2.id # o.id
               /\ \E oi \in ItemsOfOrder(o.id), oi2 \in ItemsOfOrder(o2.id) :
                      oi.movie_id = oi2.movie_id /\ oi.price_at_order # oi2.price_at_order

\* C13: in every step, an order that is still there afterwards has the same
\* user, the same total_amount and the same OrderItems, each with the same
\* price_at_order, as before: catalog edits, cart operations, cancel, PATCH
\* status, checkout and webhooks change nothing of an order but its status.
C13_OrderSnapshotKept ==
    [][\A o \in orders : \A o2 \in orders' :
          o2.id = o.id =>
              /\ o2.user_id = o.user_id
              /\ o2.total_amount = o.total_amount
              /\ {oi \in orderItems' : oi.order_id = o.id} = ItemsOfOrder(o.id)]_vars

\* an order was marked paid after the catalog price of a movie it holds was
\* changed, with a movie in the owner's cart
C13_Witness ==
    /\ last.op = "patch_status"
    /\ last.result = "ok"
    /\ \E o \in orders :
           /\ o.status = PAID
           /\ \E oi \in ItemsOfOrder(o.id) : oi.price_at_order # Price(oi.movie_id)
           /\ o.total_amount # SumPrices(MoviesOfOrder(o.id))
           /\ CartMovies(o.user_id) # {}

\* the request served last was a cancel_order that cancelled the order oid
CancelledNow(oid) == last.op = "cancel" /\ last.result = "ok" /\ last.arg = oid

\* C14: cancel_order by the owner of a pending order answers ok and leaves
\* the order canceled; on a paid or canceled order it answers with the
\* invalid-transition error and changes no order; and the order that
\* cancel_order has just cancelled is not pending again after the next
\* request, where cancel_order would cancel it a second time.
C14_CancelOnce ==
    [][/\ \A u \in Users, oid \in 1..MaxOrders :
             (/\ last'.op = "cancel" /\ last'.user = u /\ last'.arg = oid
              /\ get_order(oid, u) # {})
             => IF OrderById(oid).status = PENDING
                THEN /\ last'.result = "ok"
                     /\ orders' = SetStatus(orders, oid, CANCELED)
                ELSE /\ last'.result = "invalid_transition"
                     /\ orders' = orders
       /\ \A oid \in 1..MaxOrders :
             CancelledNow(oid) =>
                 ~\E o \in orders' : o.id = oid /\ o.status = PENDING]_vars

\* C15: cancel_order for an order id that no order has, or that an order of
\* another user has, answers not-found and changes no order; no cancel_order
\* step changes an order of a user other than the caller.
C15_CancelOwnOrdersOnly ==
    [][\A u \in Users, oid \in 1..MaxOrders :
          (last'.op = "cancel" /\ last'.user = u /\ last'.arg = oid)
          => /\ (~\E o \in orders : o.id = oid /\ o.user_id = u)
                    => (last'.result = "not_found" /\ orders' = orders)
             /\ \A o \in orders : o.user_id # u => o \in orders']_vars

\* a customer asked to cancel a pending order of another user and was told
\* not-found, the order staying pending
C15_Witness ==
    /\ last.op = "cancel"
    /\ last.result = "not_found"
    /\ \E o \in orders : /\ o.id = last.arg
                         /\ o.user_id # last.user
                         /\ o.status = PENDING

\* C16: create_order_from_cart for a user without a cart, or with a cart
\* without items, answers with the empty-cart error and leaves orders,
\* order items, carts and cart items as they were.
C16_EmptyCartRejected ==
    [][\A u \in Users :
          (/\ last'.op = "create_order" /\ last'.user = u
           /\ ~\E c \in carts : c.user_id = u /\ \E ci \in cartItems : ci.cart_id = c.id)
          => /\ last'.result = "empty_cart"
             /\ orders' = orders
             /\ orderItems' = orderItems
             /\ carts' = carts
             /\ cartItems' = cartItems]_vars

\* the call was refused on a cart that exists and is empty, after an earlier
\* order had drained it
C16_Witness ==
    /\ last.op = "create_order"
    /\ last.result = "empty_cart"
    /\ CartOf(last.user) # {}
    /\ CartMovies(last.user) = {}
    /\ orders # {}

\* C17: no cart ever holds two rows for one movie, and add_item_to_cart for
\* a movie that is in the caller's cart answers with the already-in-cart
\* conflict and leaves the cart items as they were.
C17_NoDuplicateCartItems ==
    /\ [](\A c \in carts, m \in Movies :
              Cardinality(CartItemRows(cartItems, c.id, m)) <= 1)
    /\ [][\A u \in Users, m \in Movies :
             (/\ last'.op = "add_item" /\ last'.user = u /\ last'.arg = m
              /\ m \in CartMovies(u))
             => (last'.result = "already_in_cart" /\ cartItems' = cartItems)]_vars

\* C18: an add_item_to_cart request that passed the existing-item check and
\* then lost at the (cart_id, movie_id) uniqueness constraint to a concurrent
\* request is answered with the already-in-cart conflict.
C18_RaceLoserGetsConflict ==
    \A p \in Procs : ad[p].pc = "lost" => ad[p].result = "already_in_cart"

\* C19: every user has at most one cart, every cart id that
\* get_or_create_cart has returned to a request is the id of the cart of that
\* request's user, and two requests of one user were returned the same id.
C19_OneCartPerUser ==
    /\ \A u \in Users : Cardinality(CartOf(u)) <= 1
    /\ \A p \in Procs :
           ad[p].cart_id # 0 =>
               \E c \in carts : c.id = ad[p].cart_id /\ c.user_id = ad[p].user
    /\ \A p \in Procs, q \in Procs :
           (ad[p].user = ad[q].user /\ ad[p].cart_id # 0 /\ ad[q].cart_id # 0)
           => ad[p].cart_id = ad[q].cart_id

\* two requests of one user hold the id of the user's cart, which is not the
\* only cart, and a request before them put an item into it
C19_Witness ==
    \E p \in Procs, q \in Procs :
        /\ p # q
        /\ ad[p].user = ad[q].user
        /\ ad[p].cart_id # 0
        /\ ad[p].cart_id = ad[q].cart_id
        /\ Cardinality(carts) = 2
        /\ \E ci \in cartItems : ci.cart_id = ad[p].cart_id

\* the responses with status 400 of the webhook endpoint
WebhookRejections == {"missing_signature", "invalid_signature", "invalid_payload"}

\* C20: a webhook request without a stripe-signature header, with an invalid
\* signature or with an invalid payload is answered 400 and leaves orders,
\* payments and payment items as they were; so every completed or expired
\* event that the handler acts on is about a session that the gateway has
\* completed or expired.
C20_UnverifiedWebhookRejected ==
    [][/\ (last'.op = "webhook")
          => /\ last'.result \in WebhookRejections
             /\ orders' = orders
             /\ payments' = payments
             /\ paymentItems' = paymentItems
       /\ (last'.op \in {"wh_completed", "wh_expired"})
          => \E s \in sessions :
                 /\ s.id = last'.arg
                 /\ s.state = IF last'.op = "wh_completed" THEN "complete"
                                                           ELSE "expired"]_vars

\* a request with a bad signature named a session that the gateway had
\* completed and whose order is pending: it was refused, and nothing is paid
C20_Witness ==
    /\ last.op = "webhook"
    /\ last.result = "invalid_signature"
    /\ \E s \in sessions : /\ s.id = last.arg
                           /\ s.state = "complete"
                           /\ PaymentsOfSession(s.id) = {}
                           /\ OrderById(s.order_id).status = PENDING

\* C21: a verified event of a type other than checkout.session.completed
\* and checkout.session.expired is answered with success and leaves orders,
\* payments and payment items as they were.
C21_OtherEventsAcknowledged ==
    [][(last'.op = "wh_other")
       => /\ last'.result = "success"
          /\ orders' = orders
          /\ payments' = payments
          /\ paymentItems' = paymentItems]_vars

\* such an event came for a session whose order is pending and unpaid
C21_Witness ==
    /\ last.op = "wh_other"
    /\ last.result = "success"
    /\ \E s \in sessions : /\ s.id = last.arg
                           /\ OrderById(s.order_id).status = PENDING
                           /\ PaymentsOfOrder(s.order_id) = {}

\* C22: a checkout.session.expired delivery is answered with success and
\* leaves the order of its session canceled, whatever the order's status was,
\* and every other order, the order items and the payments as they were; for
\* an order that is canceled already it changes nothing.
C22_ExpiredCancelsAlways ==
    [][(last'.op = "wh_expired")
       => (/\ last'.result = "success"
           /\ \A s \in sessions : s.id = last'.arg =>
                  /\ orders' = {IF o.id = s.order_id THEN [o EXCEPT !.status = CANCELED]
                                ELSE o : o \in orders}
                  /\ OrderById(s.order_id).status = CANCELED => orders' = orders
           /\ orderItems' = orderItems
           /\ payments' = payments
           /\ paymentItems' = paymentItems)]_vars

\* an expired event was delivered for a session of an order, and the order
\* is canceled
C22_Witness ==
    /\ last.op = "wh_expired"
    /\ last.result = "success"
    /\ \E s \in sessions : /\ s.id = last.arg
                           /\ s.state = "expired"
                           /\ OrderById(s.order_id).status = CANCELED

\* C23: a checkout.session.completed delivery for a session without Payment
\* runs create_payment_from_session, which adds exactly one Payment, of the
\* session's order, and one PaymentItem per OrderItem of that order, with
\* price_at_payment equal to the item's price_at_order, in the same commit.
C23_PaymentCopiesOrderItems ==
    [][\A s \in sessions :
          (/\ last'.op = "wh_completed" /\ last'.arg = s.id
           /\ PaymentsOfSession(s.id) = {})
          => \E p \in payments' :
                 /\ payments' = payments \cup {p}
                 /\ p \notin payments
                 /\ p.session_id = s.id /\ p.order_id = s.order_id
                 /\ paymentItems' \ paymentItems =
                        {[payment_id |-> p.id, order_id |-> oi.order_id,
                          movie_id |-> oi.movie_id,
                          price_at_payment |-> oi.price_at_order] :
                              oi \in ItemsOfOrder(s.order_id)}
                 /\ Cardinality(paymentItems' \ paymentItems) =
                        Cardinality(ItemsOfOrder(s.order_id))]_vars

\* C24: the first checkout.session.completed delivery for a session of a
\* pending order records exactly one Payment, whose amount is the session's
\* amount_total (in minor units: 2498 for 24.98), and leaves the order paid.
C24_PaymentAmountRecorded ==
    [][\A s \in sessions :
          (/\ last'.op = "wh_completed" /\ last'.arg = s.id
           /\ PaymentsOfSession(s.id) = {}
           /\ OrderById(s.order_id).status = PENDING)
          => (/\ \E p \in payments' :
                     /\ {q \in payments' : q.session_id = s.id} = {p}
                     /\ p.amount = s.amount_total
              /\ \E o \in orders' : o.id = s.order_id /\ o.status = PAID)]_vars

\* C25: add_item_to_cart, create_order_from_cart and cancel_order always end
\* in success or in a business error that the route maps to 400, 404 or 409,
\* never in an unhandled exception (500).
C25_NoUnhandledException ==
    last.op \in {"add_item", "create_order", "cancel"} => last.result # "server_error"

\* C26: a PATCH of the status by a non-admin with a status other than
\* canceled is answered 403 and changes no order; a non-admin's cancel takes
\* effect only on a pending order of the caller, and otherwise changes no
\* order; so every other change of an order's status is an admin's, and the
\* listing of all orders is answered to admins only.
C26_NonAdminCanOnlyCancel ==
    [][/\ (last'.op = "patch_status" /\ last'.user \notin Admins)
          => (last'.result = "forbidden" /\ orders' = orders)
       /\ (last'.op = "cancel")
          => IF last'.result = "ok"
             THEN /\ \E o \in orders : /\ o.id = last'.arg
                                       /\ o.user_id = last'.user
                                       /\ o.status = PENDING
                  /\ orders' = {IF o.id = last'.arg THEN [o EXCEPT !.status = CANCELED]
                                ELSE o : o \in orders}
             ELSE orders' = orders
       /\ (\E o \in orders, o2 \in orders' : o2.id = o.id /\ o2.status # o.status)
          => \/ last'.user \in Admins
             \/ last'.op = "cancel"
       /\ (last'.op = "list_all")
          => (last'.result = "ok" <=> last'.user \in Admins)]_vars

\* a customer asked to set their own pending order to paid and was refused
C26_Witness ==
    /\ last.op = "patch_status"
    /\ last.user \in Customers
    /\ last.result = "forbidden"
    /\ \E o \in orders : o.id = last.arg /\ o.user_id = last.user /\ o.status = PENDING

\* a delivery for the session sid was answered with success
Acknowledged(sid) ==
    \E p \in Procs : /\ wh[p].pc = "done" /\ wh[p].session = sid
                     /\ wh[p].result \in {"success", "already_recorded"}
\* a delivery for the session sid ran to its end and was answered
Answered(sid) ==
    \E p \in Procs : /\ wh[p].pc = "done" /\ wh[p].session = sid
                     /\ wh[p].result # "aborted"
OrderOfSession(sid) == OrderById(SessionById(sid).order_id)

\* no session has a Payment on record and a delivery acknowledged with
\* success while its order is still pending
NoAcknowledgedUnpaid ==
    \A sid \in 1..MaxSessions :
        (Acknowledged(sid) /\ PaymentsOfSession(sid) # {})
        => OrderOfSession(sid).status # PENDING

\* C27: in no state is there a Payment of a session, a delivery for the
\* session acknowledged with success, and the session's order still pending;
\* and when deliveries of the completed event for a session keep being
\* answered, the session's order is eventually paid.
C27_RedeliveryPaysOrder ==
    /\ []NoAcknowledgedUnpaid
    /\ \A sid \in 1..MaxSessions :
           []<>Answered(sid) => <>(OrderOfSession(sid).status = PAID)

\* C28: POST /orders/{id}/checkout reaches the gateway (a session is opened,
\* or the gateway's error is passed on) only when the order is the caller's,
\* is pending and has no Payment; in every other case it answers 404 or 400
\* and opens no session; in no case does it change orders or payments.
C28_CheckoutGuarded ==
    [][(last'.op = "checkout")
       => (/\ IF /\ \E o \in orders : /\ o.id = last'.arg
                                      /\ o.user_id = last'.user
                                      /\ o.status = PENDING
                 /\ PaymentsOfOrder(last'.arg) = {}
              THEN /\ last'.result \in {"ok", "stripe_error"}
                   /\ last'.result = "ok" =>
                          \E s \in sessions' \ sessions :
                              /\ sessions' = sessions \cup {s}
                              /\ s.order_id = last'.arg /\ s.user_id = last'.user
                   /\ last'.result = "stripe_error" => sessions' = sessions
              ELSE /\ last'.result \in {"not_found", "not_pending", "payment_exists"}
                   /\ sessions' = sessions
           /\ orders' = orders
           /\ orderItems' = orderItems
           /\ payments' = payments
           /\ paymentItems' = paymentItems)]_vars

\* the owner asked to pay an order that is no longer pending, or another
\* customer asked to pay a pending order that is not theirs, and was refused
C28_Witness ==
    /\ last.op = "checkout"
    /\ \E o \in orders :
           /\ o.id = last.arg
           /\ \/ last.user = o.user_id /\ o.status # PENDING /\ last.result = "not_pending"
              \/ last.user # o.user_id /\ o.status = PENDING /\ last.result = "not_found"

IsActive(rows, e) == \E u \in rows : u.email = e /\ u.is_active
IsInactive(rows, e) == \E u \in rows : u.email = e /\ ~u.is_active

\* C29: a user is registered inactive and becomes active only by an
\* activate_user request that carries the stored, unexpired activation token of
\* that user, which deletes the token; a login for an inactive user is
\* refused (403 with the right password, 401 with a wrong one) and stores no
\* RefreshToken; an activation request for an active user is answered 400 and
\* changes nothing.
C29_InactiveUntilActivated ==
    [][\A e \in Emails :
          /\ (UserByEmail(e) = {} /\ last'.op = "register" /\ last'.user = e
              /\ last'.result = "created")
             => IsInactive(userRows', e)
          /\ (~IsActive(userRows, e) /\ IsActive(userRows', e))
             => (/\ last'.op = "activate" /\ last'.user = e /\ last'.result = "ok"
                 /\ \E k \in TokenOf(activationTokens, e) :
                        k.token = last'.arg /\ ~k.expired
                 /\ {k \in activationTokens' : k.user = e} = {})
          /\ (last'.op = "login" /\ last'.user = e /\ IsInactive(userRows, e))
             => (/\ last'.result =
                        IF \E u \in UserByEmail(e) :
                               verify_password(last'.arg, u.hashed_password)
                        THEN "inactive" ELSE "unauthorized"
                 /\ refreshTokens' = refreshTokens)
          /\ (last'.op = "activate" /\ last'.user = e /\ IsActive(userRows, e))
             => (/\ last'.result = "already_active"
                 /\ UNCHANGED auth)]_vars

\* C29 as stated: every login_user for an inactive user is answered 403 and
\* stores no RefreshToken, whatever password it carries.
C29_InactiveLoginIs403 ==
    [][\A e \in Emails :
          (last'.op = "login" /\ last'.user = e /\ IsInactive(userRows, e))
          => (last'.result = "inactive" /\ refreshTokens' = refreshTokens)]_vars

\* an activation request for a user who is active already was refused
C29_Witness ==
    /\ last.op = "activate"
    /\ last.result = "already_active"
    /\ IsActive(userRows, last.user)
    /\ TokenOf(activationTokens, last.user) = {}

\* C30: a user has at most one PasswordResetToken; a request for an active
\* user replaces the stored token by a new one; a password changes only by
\* a complete_password_reset that carries the stored, unexpired token of the
\* user, which deletes it; an attempt with a wrong or expired token deletes
\* the stored token and changes no password; so the token of a successful
\* reset does not succeed a second time.
C30_ResetTokenUsedOnce ==
    /\ [](\A e \in Emails : Cardinality(TokenOf(passwordResetTokens, e)) <= 1)
    /\ [][\A e \in Emails :
             /\ (last'.op = "reset_request" /\ last'.user = e /\ IsActive(userRows, e))
                => \E k \in passwordResetTokens' :
                       /\ {x \in passwordResetTokens' : x.user = e} = {k}
                       /\ ~k.expired
                       /\ \A old \in passwordResetTokens : old.token # k.token
             /\ (\E u \in userRows, u2 \in userRows' :
                     /\ u.email = e /\ u2.email = e
                     /\ u2.hashed_password # u.hashed_password)
                => (/\ last'.op = "reset_complete" /\ last'.user = e
                    /\ last'.result = "ok"
                    /\ \E k \in TokenOf(passwordResetTokens, e) :
                           k.token = last'.arg /\ ~k.expired
                    /\ {k \in passwordResetTokens' : k.user = e} = {})
             /\ (/\ last'.op = "reset_complete" /\ last'.user = e
                 /\ IsActive(userRows, e)
                 /\ \E k \in TokenOf(passwordResetTokens, e) :
                        k.token # last'.arg \/ k.expired)
                => (/\ last'.result = "invalid"
                    /\ {k \in passwordResetTokens' : k.user = e} = {}
                    /\ userRows' = userRows)
             /\ (/\ last.op = "reset_complete" /\ last.result = "ok"
                 /\ last'.op = "reset_complete"
                 /\ last.user = e /\ last'.user = e /\ last'.arg = last.arg)
                => (last'.result # "ok" /\ userRows' = userRows)]_vars

\* a password was reset with a token that had replaced an earlier one of
\* the user, and no token of the user is stored any more
C30_Witness ==
    /\ last.op = "reset_complete"
    /\ last.result = "ok"
    /\ last.arg = tokenSeq
    /\ tokenSeq = MaxTokens
    /\ Cardinality(userRows) = 1
    /\ TokenOf(passwordResetTokens, last.user) = {}

====
